---- MODULE Spec2Model ----
(***************************************************************************)
(* gitDash: the incremental sync-and-cache engine (src/commit_agent.py).   *)
(*                                                                         *)
(* Time is counted in hours.  A datetime is a record                       *)
(*   [wall |-> clock reading, tzinfo |-> None or Some(utc offset)]         *)
(* and an ISO-8601 string is a record [wall |-> reading, zone |-> suffix]  *)
(* with suffix "" (no zone), "Z" or "+00:00".  Free text (summaries,       *)
(* error messages, prompts) is a TLA+ string.                              *)
(*                                                                         *)
(* sync_repos is a coroutine: it is modelled with one action per stretch   *)
(* of code between two suspension points.  Its only suspension point is    *)
(* the await of github.get_commits; PolyAgent.run is a blocking call.      *)
(***************************************************************************)
EXTENDS Integers, Sequences, FiniteSets, TLC

VARIABLES
    cache,      \* CommitAgent.cache: repo_id string -> entry
    as_of,      \* CommitAgent.as_of: a naive datetime (local wall clock)
    tz,         \* utc offset of the machine's local zone, in hours
    pc,         \* per sync_repos call: "idle", "fetching" or "raised"; per task or
                \* request of the server, also "sleeping", "new", "listing", "done"
    repos,      \* per sync_repos call: its argument
    idx,        \* per sync_repos call: position of the for loop
    trace,      \* what the last step did: checks made, calls issued, results
    disk,       \* the file cache.json: missing, unreadable, or a JSON document
    persisted,  \* the cache as it was when save_cache last wrote the file
    clock,      \* the machine's clock, a local reading; it moves in the server
    asked,      \* per sync_repos call: the clock when it last called get_commits
    dashboard_data, \* server.py's global: None or the dict of the last refresh
    last_refresh,   \* server.py's global: None or the datetime of the last refresh
    token       \* whether GITHUB_TOKEN is set in the server's environment

vars ==
    <<cache, as_of, tz, pc, repos, idx, trace, disk, persisted, clock, asked,
      dashboard_data, last_refresh, token>>

-----------------------------------------------------------------------------
(* Bounds of the model *)

MaxTime == 1
MaxCommits == 6

(* Program constants *)

SummaryWindow == 5
ErrorCap == 50
FetchDays == 30
PerPage == 100

-----------------------------------------------------------------------------
(* Python values *)

None == <<>>
Some(v) == <<v>>

Min(a, b) == IF a <= b THEN a ELSE b

\* s[:n] on a string or a list
Prefix(s, n) == SubSeq(s, 1, Min(n, Len(s)))

StartsWith(s, p) == Len(s) >= Len(p) /\ SubSeq(s, 1, Len(p)) = p

IsSpace(ch) == ch \in {" ", "\n", "\t"}

RECURSIVE LStrip(_)
LStrip(s) ==
    IF Len(s) > 0 /\ IsSpace(SubSeq(s, 1, 1))
    THEN LStrip(SubSeq(s, 2, Len(s)))
    ELSE s

RECURSIVE RStrip(_)
RStrip(s) ==
    IF Len(s) > 0 /\ IsSpace(SubSeq(s, Len(s), Len(s)))
    THEN RStrip(SubSeq(s, 1, Len(s) - 1))
    ELSE s

\* str.strip()
Strip(s) == RStrip(LStrip(s))

\* dict with key k set to v
Put(d, k, v) == [x \in (DOMAIN d) \cup {k} |-> IF x = k THEN v ELSE d[x]]

\* x or y
Or(x, y) == IF x = None \/ x = Some("") THEN y ELSE x[1]

\* Path(filepath).exists() is False
NoFile == [kind |-> "missing"]

-----------------------------------------------------------------------------
(* datetime *)

Naive(w) == [wall |-> w, tzinfo |-> None]
Aware(w, off) == [wall |-> w, tzinfo |-> Some(off)]

\* datetime.isoformat()
isoformat(dt) ==
    [wall |-> dt.wall, zone |-> IF dt.tzinfo = None THEN "" ELSE "+00:00"]

\* str.replace('Z', '+00:00') on an ISO string
ReplaceZ(s) == IF s.zone = "Z" THEN [s EXCEPT !.zone = "+00:00"] ELSE s

\* datetime.fromisoformat()
fromisoformat(s) ==
    IF s.zone = "" THEN Naive(s.wall) ELSE Aware(s.wall, 0)

\* datetime.astimezone(timezone.utc): a naive value is taken as local time
astimezone_utc(dt, tzl) ==
    IF dt.tzinfo = None
    THEN Aware(dt.wall - tzl, 0)
    ELSE Aware(dt.wall - dt.tzinfo[1], 0)

\* a <= b on two aware datetimes
AwareLeq(a, b) == a.wall - a.tzinfo[1] <= b.wall - b.tzinfo[1]

\* dt - timedelta(days=n)
MinusDays(dt, n) == [dt EXCEPT !.wall = dt.wall - 24 * n]

-----------------------------------------------------------------------------
(* The Activity Source and the Summarizer, as seen by the engine *)

RepoIds == {7, 12}
RepoName(id) == IF id = 7 THEN "gitDash" ELSE "ink-and-memory"
Owner == "shuxueshuxue"

LocalOffsets == {0, 1}
AsOfTimes == 0 .. MaxTime
UpdatedTimes == 0 .. MaxTime

\* a repo dict as get_repos normalises it
Repo(id, u) ==
    [id |-> id, name |-> RepoName(id), owner |-> Owner, language |-> None,
     updated_at |-> [wall |-> u, zone |-> "Z"]]

\* the i-th newest commit of a feed, as get_commits normalises it
Commit(i) ==
    [sha |-> "c" \o ToString(i), message |-> "msg " \o ToString(i),
     date |-> [wall |-> 0 - i, zone |-> "Z"], author |-> "dev"]

Feed(n) == [i \in 1 .. n |-> Commit(i)]

\* what a successful get_commits may return: nothing, fewer commits than the
\* summary window, more than it
Feeds == {Feed(0), Feed(1), Feed(MaxCommits)}

\* str(e) of a failed fetch: a message longer than ErrorCap
FetchErrors ==
    {"Client error '403 rate limit exceeded' for url 'https://api.github.com/repos'"}

\* what PolyAgent.run may do: return structured data, return bare content,
\* or raise
AiOutcomes ==
    {[kind |-> "data", text |-> "adding tests"],
     [kind |-> "content", text |-> " \n"],
     [kind |-> "raise", text |-> "timeout"]}

\* the arguments of sync_repos: lists of distinct repos, in the order of their ids
Batches ==
    {<<>>}
    \cup {<<Repo(a, u)>> : a \in RepoIds, u \in UpdatedTimes}
    \cup {<<Repo(7, u), Repo(12, v)>> : u \in UpdatedTimes, v \in UpdatedTimes}

Tasks == {"main"}

-----------------------------------------------------------------------------
(* CommitAgent *)

\* needs_fetch with the cached time relabelled as UTC instead of converted
needs_fetch_relabel(c, repo, tzl) ==
    LET repo_id == ToString(repo.id)
    IN  IF repo_id \in DOMAIN c
        THEN LET updated_at_dt == fromisoformat(ReplaceZ(repo.updated_at))
                 parsed == fromisoformat(c[repo_id].last_fetched)
             IN  ~ AwareLeq(updated_at_dt, Aware(parsed.wall, 0))
        ELSE TRUE

\* needs_fetch with `<` for `<=`
needs_fetch_strict(c, repo, tzl) ==
    LET repo_id == ToString(repo.id)
    IN  IF repo_id \in DOMAIN c
        THEN LET updated_at_dt == fromisoformat(ReplaceZ(repo.updated_at))
                 last_fetched_dt ==
                     astimezone_utc(fromisoformat(c[repo_id].last_fetched), tzl)
             IN  ~ (AwareLeq(updated_at_dt, last_fetched_dt)
                    /\ ~ AwareLeq(last_fetched_dt, updated_at_dt))
        ELSE TRUE

\* sync_repos, the staleness check of one repo (needs_fetch)
needs_fetch(c, repo, tzl) ==
    LET repo_id == ToString(repo.id)
    IN  IF repo_id \in DOMAIN c
        THEN LET updated_at_dt == fromisoformat(ReplaceZ(repo.updated_at))
                 parsed == fromisoformat(c[repo_id].last_fetched)
                 last_fetched_dt ==
                     IF parsed.tzinfo = None
                     THEN astimezone_utc(parsed, tzl)
                     ELSE parsed
             IN  ~ AwareLeq(updated_at_dt, last_fetched_dt)
        ELSE TRUE

\* recent_commits without the slice
recent_commits_all(commits) == commits

\* the commits handed to _generate_summary: commits[:5]
recent_commits(commits) == Prefix(commits, SummaryWindow)

RECURSIVE commit_lines(_, _)
commit_lines(cs, i) ==
    IF i > Len(cs) THEN ""
    ELSE ToString(i) \o ". " \o cs[i].message \o "\n" \o commit_lines(cs, i + 1)

\* _generate_summary: the prompt given to PolyAgent.run
prompt(repo_name, cs) ==
    "Repository: " \o repo_name \o "\n\nRecent commits:\n" \o commit_lines(cs, 1)
    \o "\n\nProvide 3-5 keywords describing the work, no subject term. "
    \o "Example: \"fixing UI bugs, refactoring auth, adding tests\" "

\* _generate_summary: its result, given what PolyAgent.run does
generate_summary(repo_name, cs, ai) ==
    IF cs = <<>> THEN "No recent activity"
    ELSE IF ai.kind = "data" THEN ai.text
    ELSE IF ai.kind = "content" THEN Strip(ai.text)
    ELSE "Summary generation failed: " \o ai.text

\* _generate_summary: the calls it makes on the Summarizer
ai_calls(repo_name, cs) ==
    IF cs = <<>> THEN <<>>
    ELSE <<[ev |-> "ai_run", repo |-> repo_name,
            messages |-> [k \in DOMAIN cs |-> cs[k].message],
            prompt |-> prompt(repo_name, cs)]>>

\* fetched_entry that keeps only the summarised commits
fetched_entry_capped(commits, now) ==
    [commits |-> Prefix(commits, SummaryWindow), last_fetched |-> isoformat(now),
     summary |-> None, summary_at |-> None]

\* sync_repos, the entry stored right after a fetch returned
fetched_entry(commits, now) ==
    [commits |-> commits, last_fetched |-> isoformat(now),
     summary |-> None, summary_at |-> None]

\* summarised_entry that stores the summary and leaves summary_at as it is
summarised_entry_unstamped(e, summary, now) == [e EXCEPT !.summary = Some(summary)]

\* sync_repos, the entry once the summary is stored
summarised_entry(e, summary, now) ==
    [e EXCEPT !.summary = Some(summary), !.summary_at = Some(isoformat(now))]

\* sync_repos, the entry stored by the except branch
error_entry(msg, now) ==
    [commits |-> <<>>, last_fetched |-> isoformat(now),
     summary |-> Some("Error: " \o Prefix(msg, ErrorCap)),
     summary_at |-> Some(isoformat(now))]

\* on_fetched with a Summarizer failure reaching the except branch of sync_repos
on_fetched_propagate(c, repo, commits, ai, now) ==
    LET repo_id == ToString(repo.id)
        e == fetched_entry(commits, now)
    IN  IF commits # <<>> /\ ai.kind = "raise"
        THEN Put(c, repo_id, error_entry(ai.text, now))
        ELSE IF commits # <<>>
        THEN Put(c, repo_id,
                 summarised_entry(
                     e, generate_summary(repo.name, recent_commits(commits), ai), now))
        ELSE Put(c, repo_id, e)

\* on_fetched that adds the fetched commits in front of the cached ones
on_fetched_extend(c, repo, commits, ai, now) ==
    LET repo_id == ToString(repo.id)
        old == IF repo_id \in DOMAIN c THEN c[repo_id].commits ELSE <<>>
        e == fetched_entry(commits \o old, now)
    IN  IF commits # <<>>
        THEN Put(c, repo_id,
                 summarised_entry(
                     e, generate_summary(repo.name, recent_commits(commits), ai), now))
        ELSE Put(c, repo_id, e)

\* on_fetched that keeps the summary and its stamp when the entry has one
on_fetched_mixed(c, repo, commits, ai, now) ==
    LET repo_id == ToString(repo.id)
        e == fetched_entry(commits, now)
        kept == repo_id \in DOMAIN c /\ c[repo_id].summary # None
    IN  IF kept
        THEN Put(c, repo_id, [e EXCEPT !.summary = c[repo_id].summary,
                                       !.summary_at = c[repo_id].summary_at])
        ELSE IF commits # <<>>
        THEN Put(c, repo_id,
                 summarised_entry(
                     e, generate_summary(repo.name, recent_commits(commits), ai), now))
        ELSE Put(c, repo_id, e)

\* on_fetched that stops after the first write of the entry, as it would if
\* the Summarizer were awaited
on_fetched_unsummarised(c, repo, commits, ai, now) ==
    Put(c, ToString(repo.id), fetched_entry(commits, now))

\* sync_repos, the try block from the return of get_commits on
on_fetched(c, repo, commits, ai, now) ==
    LET repo_id == ToString(repo.id)
        e == fetched_entry(commits, now)
    IN  IF commits # <<>>
        THEN Put(c, repo_id,
                 summarised_entry(
                     e, generate_summary(repo.name, recent_commits(commits), ai), now))
        ELSE Put(c, repo_id, e)

\* on_fetched_calls without the `if commits:` and `if not recent_commits:` guards
on_fetched_calls_always(repo, commits) ==
    <<[ev |-> "ai_run", repo |-> repo.name,
       messages |-> [k \in DOMAIN recent_commits(commits) |-> commits[k].message],
       prompt |-> prompt(repo.name, recent_commits(commits))]>>

\* sync_repos, the Summarizer calls of the try block
on_fetched_calls(repo, commits) ==
    IF commits # <<>> THEN ai_calls(repo.name, recent_commits(commits)) ELSE <<>>

\* on_fetch_error that keeps the commits of the entry it replaces
on_fetch_error_keep(c, repo, msg, now) ==
    LET repo_id == ToString(repo.id)
        old == IF repo_id \in DOMAIN c THEN c[repo_id].commits ELSE <<>>
    IN  [cache |-> Put(c, repo_id, [error_entry(msg, now) EXCEPT !.commits = old]),
         raised |-> FALSE]

\* on_fetch_error without the except branch: the exception leaves sync_repos
on_fetch_error_raise(c, repo, msg, now) == [cache |-> c, raised |-> TRUE]

\* on_fetch_error that drops the entry of the failed repo
on_fetch_error_drop(c, repo, msg, now) ==
    [cache |-> [k \in (DOMAIN c) \ {ToString(repo.id)} |-> c[k]], raised |-> FALSE]

\* sync_repos, the except branch: the failure is stored, not raised
on_fetch_error(c, repo, msg, now) ==
    [cache |-> Put(c, ToString(repo.id), error_entry(msg, now)), raised |-> FALSE]

\* get_commits(repo_id)
get_commits(c, id) ==
    LET repo_id == ToString(id)
    IN  IF repo_id \in DOMAIN c THEN c[repo_id].commits ELSE <<>>

\* get_summary with dict.get(key, default) in place of `or`
get_summary_raw(c, id) ==
    LET repo_id == ToString(id)
    IN  IF repo_id \in DOMAIN c
        THEN IF c[repo_id].summary = None THEN "No summary available"
             ELSE c[repo_id].summary[1]
        ELSE "Not synced yet"

\* get_summary(repo_id): `x or y` takes y when x is None or ""
get_summary(c, id) ==
    LET repo_id == ToString(id)
    IN  IF repo_id \in DOMAIN c
        THEN IF c[repo_id].summary = None \/ c[repo_id].summary = Some("")
             THEN "No summary available"
             ELSE c[repo_id].summary[1]
        ELSE "Not synced yet"

-----------------------------------------------------------------------------
(* The for loop of sync_repos, from position i up to its next suspension *)

\* what the loop looks at when it evaluates rs[i]
check_event(c, repo, tzl) ==
    LET repo_id == ToString(repo.id)
    IN  [ev |-> "check", repo |-> repo,
         seen |-> IF repo_id \in DOMAIN c THEN Some(c[repo_id]) ELSE None,
         needs_fetch |-> needs_fetch(c, repo, tzl)]

\* the call of github.get_commits for a stale repo
fetch_event(repo, now) ==
    [ev |-> "get_commits", owner |-> repo.owner, repo |-> repo.name,
     since |-> MinusDays(now, FetchDays), per_page |-> PerPage]

\* first position from i on whose repo needs a fetch; Len(rs) + 1 when none
RECURSIVE next_stale(_, _, _, _)
next_stale(c, rs, i, tzl) ==
    IF i > Len(rs) THEN i
    ELSE IF needs_fetch(c, rs[i], tzl) THEN i
    ELSE next_stale(c, rs, i + 1, tzl)

\* scan_cache that clears the summary of every repo it passes over
RECURSIVE scan_cache_touch(_, _, _, _)
scan_cache_touch(c, rs, i, tzl) ==
    IF i > Len(rs) \/ needs_fetch(c, rs[i], tzl) THEN c
    ELSE scan_cache_touch(
             Put(c, ToString(rs[i].id),
                 [c[ToString(rs[i].id)] EXCEPT !.summary = None, !.summary_at = None]),
             rs, i + 1, tzl)

\* the entries of the cache after the loop ran from i to its next suspension:
\* a repo that needs no fetch is passed over
scan_cache(c, rs, i, tzl) == c

\* the checks made and the fetch issued while the loop runs from i on
scan_events(c, rs, i, tzl, now) ==
    LET j == next_stale(c, rs, i, tzl)
        last == Min(j, Len(rs))
    IN  [k \in 1 .. (last - i + 1) |-> check_event(c, rs[i + k - 1], tzl)]
        \o (IF j <= Len(rs) THEN <<fetch_event(rs[j], now)>> ELSE <<>>)

\* the loop runs on from position i of the batch of call t
Continue(t, c, rs, i, done) ==
    LET j == next_stale(c, rs, i, tz)
    IN  /\ cache' = scan_cache(c, rs, i, tz)
        /\ idx' = [idx EXCEPT ![t] = j]
        /\ pc' = [pc EXCEPT ![t] = IF j <= Len(rs) THEN "fetching" ELSE "idle"]
        /\ repos' = [repos EXCEPT ![t] = IF j <= Len(rs) THEN rs ELSE <<>>]
        /\ trace' = done \o scan_events(c, rs, i, tz, as_of)
        /\ asked' = IF j <= Len(rs) THEN [asked EXCEPT ![t] = clock] ELSE asked

-----------------------------------------------------------------------------
(* Actions *)

\* as_of is given a value between two syncs: a run of main(as_of) builds its
\* CommitAgent with it and loads the cache the run before saved; the server
\* assigns commit_agent.as_of at the start of a refresh
SetAsOf(w) ==
    /\ \A t \in Tasks : pc[t] # "fetching"
    /\ as_of' = Naive(w)
    /\ trace' = <<[ev |-> "as_of"]>>
    /\ UNCHANGED <<cache, tz, pc, repos, idx, disk, persisted, clock, asked, dashboard_data, last_refresh, token>>

\* await agent.sync_repos(rs): up to the first await of get_commits
SyncRepos(t, rs) ==
    /\ pc[t] # "fetching"
    /\ Continue(t, cache, rs, 1, <<[ev |-> "sync_repos", repos |-> rs]>>)
    /\ UNCHANGED <<as_of, tz, disk, persisted, clock, dashboard_data, last_refresh, token>>

\* the entries of the other repos, and the repos the loop has still to visit
others(c, repo_id) == [k \in (DOMAIN c) \ {repo_id} |-> c[k]]
rest(rs, i) == SubSeq(rs, i + 1, Len(rs))

\* get_commits returns a list: store, summarise, go on with the loop
FetchReturns(t, commits, ai) ==
    /\ pc[t] = "fetching"
    /\ LET repo == repos[t][idx[t]]
           repo_id == ToString(repo.id)
       IN  Continue(t, on_fetched(cache, repo, commits, ai, as_of), repos[t], idx[t] + 1,
                    <<[ev |-> "fetched", repo |-> repo, commits |-> commits,
                       ai |-> IF commits # <<>> THEN Some(ai) ELSE None,
                       task |-> t, asked |-> asked[t],
                       had_entry |-> repo_id \in DOMAIN cache,
                       had_commits |-> get_commits(cache, repo.id) # <<>>,
                       others |-> others(cache, repo_id),
                       rest |-> rest(repos[t], idx[t])]>>
                    \o on_fetched_calls(repo, commits))
    /\ UNCHANGED <<as_of, tz, disk, persisted, clock, dashboard_data, last_refresh, token>>

\* get_commits raises: the except branch, then on with the loop
FetchFails(t, msg) ==
    /\ pc[t] = "fetching"
    /\ LET repo == repos[t][idx[t]]
           repo_id == ToString(repo.id)
           r == on_fetch_error(cache, repo, msg, as_of)
           done == <<[ev |-> "fetch_failed", repo |-> repo, msg |-> msg,
                      task |-> t, asked |-> asked[t],
                      had_entry |-> repo_id \in DOMAIN cache,
                      had_commits |-> get_commits(cache, repo.id) # <<>>,
                      others |-> others(cache, repo_id),
                      rest |-> rest(repos[t], idx[t])]>>
       IN  IF r.raised
           THEN /\ cache' = r.cache
                /\ pc' = [pc EXCEPT ![t] = "raised"]
                /\ repos' = [repos EXCEPT ![t] = <<>>]
                /\ idx' = [idx EXCEPT ![t] = 0]
                /\ trace' = done
                /\ asked' = asked
           ELSE Continue(t, r.cache, repos[t], idx[t] + 1, done)
    /\ UNCHANGED <<as_of, tz, disk, persisted, clock, dashboard_data, last_refresh, token>>

Init ==
    /\ cache = <<>>
    /\ as_of \in {Naive(w) : w \in AsOfTimes}
    /\ tz \in LocalOffsets
    /\ pc = [t \in Tasks |-> "idle"]
    /\ repos = [t \in Tasks |-> <<>>]
    /\ idx = [t \in Tasks |-> 0]
    /\ trace = <<>>
    /\ disk = NoFile
    /\ persisted = <<>>
    /\ clock = 0
    /\ asked = [t \in Tasks |-> 0]
    /\ dashboard_data = None
    /\ last_refresh = None
    /\ token = TRUE

Next ==
    \/ \E w \in AsOfTimes : SetAsOf(w)
    \/ \E t \in Tasks, rs \in Batches : SyncRepos(t, rs)
    \/ \E t \in Tasks, commits \in Feeds, ai \in AiOutcomes : FetchReturns(t, commits, ai)
    \/ \E t \in Tasks, msg \in FetchErrors : FetchFails(t, msg)

Spec == Init /\ [][Next]_vars

-----------------------------------------------------------------------------
(* Reading the trace of the last step *)

TraceEvents(kind) == {i \in DOMAIN trace : trace[i].ev = kind}

\* the instant named by a timestamp of the Activity Source (it ends in Z)
UpdatedInstant(repo) == repo.updated_at.wall

\* the instant named by a cached last_fetched, a reading of the local clock
FetchedInstant(entry) == entry.last_fetched.wall - tz

\* staleness as the specification defines it, on what a check looked at
IsStale(e) ==
    \/ e.seen = None
    \/ UpdatedInstant(e.repo) > FetchedInstant(e.seen[1])

\* the check at position i of the trace is followed by the fetch of its repo
FetchIssued(i) ==
    /\ i + 1 \in DOMAIN trace
    /\ trace[i + 1].ev = "get_commits"
    /\ trace[i + 1].repo = trace[i].repo.name
    /\ trace[i + 1].owner = trace[i].repo.owner

EntryOf(repo) == cache[ToString(repo.id)]

-----------------------------------------------------------------------------
(* C1 *)

\* C1: for every repo sync_repos evaluates, get_commits is called if and only
\* if the repo is stale: it has no cache entry, or its updated_at is strictly
\* later than the entry's last_fetched, both taken as absolute instants; and
\* no fetch is issued without such a check.
C1_FetchIffStale ==
    /\ \A i \in TraceEvents("check") : FetchIssued(i) <=> IsStale(trace[i])
    /\ \A j \in TraceEvents("get_commits") :
           j - 1 \in TraceEvents("check") /\ FetchIssued(j - 1)

\* a repo whose updated_at reads no later than last_fetched on the clock face,
\* but is later as an instant, has been found stale and is being fetched
C1_Witness ==
    \E i \in TraceEvents("check") :
        /\ trace[i].seen # None
        /\ trace[i].repo.updated_at.wall <= trace[i].seen[1].last_fetched.wall
        /\ IsStale(trace[i])
        /\ FetchIssued(i)

-----------------------------------------------------------------------------
(* C2 *)

\* C2 as stated: a repo whose updated_at equals its entry's last_fetched as an
\* instant is refetched.
C2_EqualRefetched ==
    \A i \in TraceEvents("check") :
        (/\ trace[i].seen # None
         /\ UpdatedInstant(trace[i].repo) = FetchedInstant(trace[i].seen[1]))
        => FetchIssued(i)

\* C2 amended: a repo whose updated_at equals its entry's last_fetched as an
\* instant is not refetched and its entry stays as it was; only an updated_at
\* strictly later than last_fetched forces a refetch.
C2_EqualLeftFresh ==
    \A i \in TraceEvents("check") :
        (/\ trace[i].seen # None
         /\ UpdatedInstant(trace[i].repo) = FetchedInstant(trace[i].seen[1]))
        => /\ ~ FetchIssued(i)
           /\ ToString(trace[i].repo.id) \in DOMAIN cache
           /\ EntryOf(trace[i].repo) = trace[i].seen[1]

\* a check has met a repo whose updated_at equals last_fetched as an instant
C2_Witness ==
    \E i \in TraceEvents("check") :
        /\ trace[i].seen # None
        /\ UpdatedInstant(trace[i].repo) = FetchedInstant(trace[i].seen[1])
        /\ trace[i].seen[1].commits # <<>>

-----------------------------------------------------------------------------
(* C3 *)

\* the last step ended a sync_repos([R]) that wrote R's entry
SyncedAlone(t) ==
    /\ pc[t] = "idle"
    /\ Len(trace) >= 1
    /\ trace[1].ev \in {"fetched", "fetch_failed"}
    /\ trace[1].rest = <<>>

\* C3: once a sync has written R's entry, a second sync_repos([R]) with the
\* same updated_at calls neither get_commits nor the Summarizer and leaves the
\* cache as it is, whatever as_of and updated_at are.
C3_SecondSyncIdle ==
    [][\A t \in Tasks :
         (/\ SyncedAlone(t)
          /\ trace'[1].ev = "sync_repos"
          /\ trace'[1].repos = <<trace[1].repo>>)
         => /\ cache' = cache
            /\ \A j \in DOMAIN trace' : trace'[j].ev \notin {"get_commits", "ai_run"}]_vars

-----------------------------------------------------------------------------
(* C4 *)

\* C4: across any sequence of syncs, with as_of set to any values between
\* them, the last_fetched of an entry never decreases.
C4_FetchedAtMonotone ==
    [][\A k \in DOMAIN cache :
         /\ k \in DOMAIN cache'
         /\ cache'[k].last_fetched.wall >= cache[k].last_fetched.wall]_vars

-----------------------------------------------------------------------------
(* C5 *)

\* C5: a repo that sync_repos finds to need no fetch keeps its cache entry as
\* it was (commits, last_fetched, summary, summary_at), and get_commits is not
\* called for it.
C5_FreshUntouched ==
    \A i \in TraceEvents("check") :
        ~ trace[i].needs_fetch
        => /\ trace[i].seen # None
           /\ ToString(trace[i].repo.id) \in DOMAIN cache
           /\ EntryOf(trace[i].repo) = trace[i].seen[1]
           /\ \A j \in TraceEvents("get_commits") : trace[j].repo # trace[i].repo.name

\* a repo with cached commits and a summary has been passed over
C5_Witness ==
    \E i \in TraceEvents("check") :
        /\ ~ trace[i].needs_fetch
        /\ trace[i].seen # None
        /\ trace[i].seen[1].commits # <<>>
        /\ trace[i].seen[1].summary # None

-----------------------------------------------------------------------------
(* C6 *)

\* C6: after get_commits failed for a stale repo, its entry has no commits,
\* last_fetched = as_of, summary_at set and a summary that begins with
\* "Error:"; get_commits(id) returns [] and get_summary(id) begins with
\* "Error:", whatever the entry held before.
C6_ErrorEntry ==
    \A i \in TraceEvents("fetch_failed") :
        LET repo == trace[i].repo
        IN  /\ ToString(repo.id) \in DOMAIN cache
            /\ EntryOf(repo).commits = <<>>
            /\ EntryOf(repo).last_fetched = [wall |-> as_of.wall, zone |-> ""]
            /\ EntryOf(repo).summary_at # None
            /\ EntryOf(repo).summary # None
            /\ StartsWith(EntryOf(repo).summary[1], "Error:")
            /\ get_commits(cache, repo.id) = <<>>
            /\ StartsWith(get_summary(cache, repo.id), "Error:")

\* a fetch has failed for a repo whose entry held commits
C6_Witness ==
    \E i \in TraceEvents("fetch_failed") : trace[i].had_commits

-----------------------------------------------------------------------------
(* C7 *)

\* the event reports a failed fetch or a failed summarization
IsFailure(e) ==
    \/ e.ev = "fetch_failed"
    \/ (e.ev = "fetched" /\ e.ai # None /\ e.ai[1].kind = "raise")

Checks == SelectSeq(trace, LAMBDA e : e.ev = "check")

\* the loop went on with the repos after the failed one: it checked them in
\* order, up to the end of the batch or to the next one it fetches
RestHandled(e) ==
    /\ Len(Checks) <= Len(e.rest)
    /\ e.rest # <<>> => Len(Checks) >= 1
    /\ \A k \in 1 .. Len(Checks) : Checks[k].repo = e.rest[k]
    /\ Len(Checks) < Len(e.rest)
       => /\ trace[Len(trace)].ev = "get_commits"
          /\ trace[Len(trace)].repo = e.rest[Len(Checks)].name

\* C7: a failed fetch or summarization for one repo is not raised to the
\* caller of sync_repos, changes no other repo's entry, and the loop goes on
\* to evaluate the remaining repos of the batch.
C7_FailureIsolated ==
    /\ \A t \in Tasks : pc[t] # "raised"
    /\ \A i \in DOMAIN trace :
           IsFailure(trace[i])
           => /\ \A k \in DOMAIN trace[i].others :
                     k \in DOMAIN cache /\ cache[k] = trace[i].others[k]
              /\ RestHandled(trace[i])

\* the fetch of the first repo of a batch failed while another repo had an
\* entry, and the loop went on to the second repo
C7_Witness ==
    \E i \in TraceEvents("fetch_failed") :
        /\ trace[i].rest # <<>>
        /\ DOMAIN trace[i].others # {}
        /\ TraceEvents("check") # {}

-----------------------------------------------------------------------------
(* C8 *)

\* C8: after a successful fetch the entry's commits are the list get_commits
\* returned, in its order and in full, and its last_fetched is as_of.
C8_StoredAsFetched ==
    \A i \in TraceEvents("fetched") :
        /\ ToString(trace[i].repo.id) \in DOMAIN cache
        /\ EntryOf(trace[i].repo).commits = trace[i].commits
        /\ EntryOf(trace[i].repo).last_fetched = [wall |-> as_of.wall, zone |-> ""]

\* a fetch has returned more commits than the summary window
C8_Witness ==
    \E i \in TraceEvents("fetched") : Len(trace[i].commits) > SummaryWindow

-----------------------------------------------------------------------------
(* C9 *)

\* the string a successful PolyAgent.run hands back to sync_repos
Returned(ai) == IF ai.kind = "data" THEN ai.text ELSE Strip(ai.text)

\* C9: after a successful fetch of a non-empty list the Summarizer has been
\* called exactly once, for that repo, with the messages of the first
\* min(5, n) commits in fetched order; when it succeeds, the string it returns
\* is the entry's summary and summary_at = as_of.
C9_SummarisedOnce ==
    \A i \in TraceEvents("fetched") :
        trace[i].commits # <<>>
        => LET e == trace[i]
               first == [k \in 1 .. Min(SummaryWindow, Len(e.commits)) |-> e.commits[k]]
           IN  /\ Cardinality(TraceEvents("ai_run")) = 1
               /\ \A j \in TraceEvents("ai_run") :
                      /\ trace[j].repo = e.repo.name
                      /\ trace[j].messages = [k \in DOMAIN first |-> first[k].message]
                      /\ trace[j].prompt = prompt(e.repo.name, first)
               /\ e.ai[1].kind # "raise"
                  => /\ EntryOf(e.repo).summary = Some(Returned(e.ai[1]))
                     /\ EntryOf(e.repo).summary_at = Some([wall |-> as_of.wall, zone |-> ""])

\* a fetch has returned more commits than the summary window and the
\* Summarizer has answered
C9_Witness ==
    \E i \in TraceEvents("fetched") :
        /\ Len(trace[i].commits) > SummaryWindow
        /\ trace[i].ai # None
        /\ trace[i].ai[1].kind = "data"
        /\ TraceEvents("ai_run") # {}

-----------------------------------------------------------------------------
(* C10 *)

\* C10: after a successful fetch of an empty list the entry's summary is
\* "No recent activity", and get_summary returns it.
C10_NoActivitySentinel ==
    \A i \in TraceEvents("fetched") :
        trace[i].commits = <<>>
        => /\ EntryOf(trace[i].repo).summary = Some("No recent activity")
           /\ get_summary(cache, trace[i].repo.id) = "No recent activity"

-----------------------------------------------------------------------------
(* C11 *)

\* C11: the Summarizer is never called with an empty list of commits, and
\* every call of it comes from a fetch that returned commits: an empty fetch,
\* a failed fetch and a repo that needs no fetch cause none.
C11_NoEmptySummarizerCall ==
    /\ \A j \in TraceEvents("ai_run") :
           /\ trace[j].messages # <<>>
           /\ \E i \in TraceEvents("fetched") :
                  trace[i].commits # <<>> /\ trace[i].repo.name = trace[j].repo
    /\ Cardinality(TraceEvents("ai_run"))
           <= Cardinality({i \in TraceEvents("fetched") : trace[i].commits # <<>>})

\* a fetch returned no commits and the loop then passed over a fresh repo,
\* with no call of the Summarizer
C11_Witness ==
    /\ \E i \in TraceEvents("fetched") : trace[i].commits = <<>>
    /\ \E i \in TraceEvents("check") : ~ trace[i].needs_fetch
    /\ TraceEvents("ai_run") = {}

-----------------------------------------------------------------------------
(* C12 *)

\* the fetch returned commits and PolyAgent.run raised
SummarizerFailed(e) == e.ev = "fetched" /\ e.ai # None /\ e.ai[1].kind = "raise"

\* C12: when the Summarizer fails after a fetch that returned commits, the
\* entry keeps the fetched commits and get_commits returns them, its summary
\* is a string that tells the failure and not an "Error:" fetch-error string,
\* and summary_at = as_of.
C12_SummarizerFailureKeepsCommits ==
    \A i \in DOMAIN trace :
        SummarizerFailed(trace[i])
        => LET e == trace[i]
           IN  /\ ToString(e.repo.id) \in DOMAIN cache
               /\ EntryOf(e.repo).commits = e.commits
               /\ get_commits(cache, e.repo.id) = e.commits
               /\ e.commits # <<>>
               /\ EntryOf(e.repo).summary # None
               /\ EntryOf(e.repo).summary[1]
                      = "Summary generation failed: " \o e.ai[1].text
               /\ ~ StartsWith(EntryOf(e.repo).summary[1], "Error:")
               /\ EntryOf(e.repo).summary_at = Some([wall |-> as_of.wall, zone |-> ""])

\* the Summarizer failed on a fetch of more commits than the summary window
C12_Witness ==
    \E i \in DOMAIN trace :
        SummarizerFailed(trace[i]) /\ Len(trace[i].commits) > SummaryWindow

-----------------------------------------------------------------------------
(* C13 *)

\* the events of a return of get_commits
Returns == {"fetched", "fetch_failed"}

\* C13: when sync_repos has handled a repo (one with no entry before, too),
\* an entry for it exists, get_commits returns its list and get_summary is
\* not "Not synced yet"; and no later step of any sync takes an entry away,
\* so get_summary never goes back to "Not synced yet".
C13_SyncedForGood ==
    [][/\ \A i \in DOMAIN trace' :
              trace'[i].ev \in Returns
              => /\ ToString(trace'[i].repo.id) \in DOMAIN cache'
                 /\ get_commits(cache', trace'[i].repo.id)
                        = cache'[ToString(trace'[i].repo.id)].commits
                 /\ get_summary(cache', trace'[i].repo.id) # "Not synced yet"
       /\ \A id \in RepoIds :
              get_summary(cache, id) # "Not synced yet"
              => get_summary(cache', id) # "Not synced yet"]_vars

\* the first sync of a repo has ended, with a failed fetch, and the repo is
\* known to get_summary
C13_Witness ==
    \E i \in DOMAIN trace :
        /\ trace[i].ev = "fetch_failed"
        /\ ~ trace[i].had_entry
        /\ get_summary(cache, trace[i].repo.id) # "Not synced yet"

-----------------------------------------------------------------------------
(* C14 *)

\* an identifier no sync ever saw
UnknownId == 99
AskedIds == RepoIds \cup {UnknownId}

HasEntry(id) == ToString(id) \in DOMAIN cache
SummaryOf(id) == cache[ToString(id)].summary

\* C14, as stated: get_summary returns "Not synced yet" exactly when there is
\* no entry and "No summary available" exactly when there is an entry whose
\* summary is unset.
C14_SentinelIffUnset ==
    \A id \in AskedIds :
        /\ get_summary(cache, id) = "Not synced yet" <=> ~ HasEntry(id)
        /\ get_summary(cache, id) = "No summary available"
               <=> (HasEntry(id) /\ SummaryOf(id) = None)

\* C14, amended: get_summary returns "Not synced yet" when there is no entry,
\* "No summary available" when there is an entry whose summary is unset or
\* the empty string, and the cached summary otherwise; the result is never
\* the empty string.
C14_SentinelOrSummary ==
    \A id \in AskedIds :
        /\ get_summary(cache, id) =
               (IF ~ HasEntry(id) THEN "Not synced yet"
                ELSE IF SummaryOf(id) \in {None, Some("")} THEN "No summary available"
                ELSE SummaryOf(id)[1])
        /\ Len(get_summary(cache, id)) > 0

\* one entry holds an empty summary, one holds none, one holds a text, and
\* one identifier has no entry
C14_Witness ==
    /\ \E id \in AskedIds : HasEntry(id) /\ SummaryOf(id) = Some("")
    /\ \E id \in AskedIds : HasEntry(id) /\ SummaryOf(id) \notin {None, Some("")}
    /\ \E id \in AskedIds : ~ HasEntry(id)

-----------------------------------------------------------------------------
(* Board (src/board.py) *)

RecentDays == 3
MonthDays == 30
RecentFactor == 5

\* datetime.replace(tzinfo=...): the clock reading is kept, the zone relabelled
replace_tzinfo(dt, tzinfo) == [dt EXCEPT !.tzinfo = tzinfo]

\* a >= b on two datetimes that are both naive or both aware
DateGeq(a, b) ==
    IF a.tzinfo = None THEN a.wall >= b.wall
    ELSE a.wall - a.tzinfo[1] >= b.wall - b.tzinfo[1]

\* the test of _count_commits_in_window on one commit
in_window(commit, now, days) ==
    LET cutoff == MinusDays(now, days)
        commit_date == fromisoformat(ReplaceZ(commit.date))
        cutoff_aware == IF commit_date.tzinfo # None
                        THEN replace_tzinfo(cutoff, commit_date.tzinfo)
                        ELSE cutoff
    IN  DateGeq(commit_date, cutoff_aware)

\* Board._count_commits_in_window(commits, days)
count_commits_in_window(commits, now, days) ==
    Cardinality({k \in DOMAIN commits : in_window(commits[k], now, days)})

\* row with the two factors of the weight exchanged
row_swapped(c, repo, now) ==
    LET commits == get_commits(c, repo.id)
        count_3d == count_commits_in_window(commits, now, RecentDays)
        count_30d == count_commits_in_window(commits, now, MonthDays)
    IN  [project |-> repo.name,
         url |-> "https://github.com/" \o repo.owner \o "/" \o repo.name,
         commit_count_3d |-> count_3d,
         commit_count_30d |-> count_30d,
         language |-> Or(repo.language, "N/A"),
         working_state |-> get_summary(c, repo.id),
         loc |-> 0,
         weight |-> count_3d + RecentFactor * count_30d]

\* get_projects, the ProjectRow of one repo
row(c, repo, now) ==
    LET commits == get_commits(c, repo.id)
        count_3d == count_commits_in_window(commits, now, RecentDays)
        count_30d == count_commits_in_window(commits, now, MonthDays)
    IN  [project |-> repo.name,
         url |-> "https://github.com/" \o repo.owner \o "/" \o repo.name,
         commit_count_3d |-> count_3d,
         commit_count_30d |-> count_30d,
         language |-> Or(repo.language, "N/A"),
         working_state |-> get_summary(c, repo.id),
         loc |-> 0,
         weight |-> RecentFactor * count_3d + count_30d]

\* a row put into a list sorted by weight, descending, behind its equals
RECURSIVE insert_desc(_, _)
insert_desc(r, rows) ==
    IF rows = <<>> THEN <<r>>
    ELSE IF rows[1].weight >= r.weight THEN <<rows[1]>> \o insert_desc(r, Tail(rows))
    ELSE <<r>> \o rows

\* a row put into a list sorted by weight, ascending, behind its equals
RECURSIVE insert_asc(_, _)
insert_asc(r, rows) ==
    IF rows = <<>> THEN <<r>>
    ELSE IF rows[1].weight <= r.weight THEN <<rows[1]>> \o insert_asc(r, Tail(rows))
    ELSE <<r>> \o rows

Reverse(rows) == [k \in DOMAIN rows |-> rows[Len(rows) + 1 - k]]

\* sort_rows as an ascending sort followed by a reversal
RECURSIVE sort_asc(_)
sort_asc(rows) ==
    IF rows = <<>> THEN <<>>
    ELSE insert_asc(rows[Len(rows)], sort_asc(SubSeq(rows, 1, Len(rows) - 1)))
sort_rows_reversed(rows) == Reverse(sort_asc(rows))

\* projects.sort(key=weight, reverse=True): list.sort is stable, and with
\* reverse=True rows of equal weight still keep the order they had
RECURSIVE sort_rows(_)
sort_rows(rows) ==
    IF rows = <<>> THEN <<>>
    ELSE insert_desc(rows[Len(rows)], sort_rows(SubSeq(rows, 1, Len(rows) - 1)))

\* Board(rs, agent, as_of).get_projects()
get_projects(c, rs, now) == sort_rows([k \in DOMAIN rs |-> row(c, rs[k], now)])

-----------------------------------------------------------------------------
(* The read path: what a read leaves in the cache, and the calls it makes *)

\* read_effect of a reader that enters an empty entry for an unknown repo
read_effect_setdefault(c, ids) ==
    [k \in (DOMAIN c) \cup {ToString(id) : id \in ids} |->
        IF k \in DOMAIN c THEN c[k]
        ELSE [commits |-> <<>>, last_fetched |-> isoformat(Naive(0)),
              summary |-> None, summary_at |-> None]]

\* the cache after get_commits, get_summary or get_projects looked up ids:
\* they read self.cache and assign nothing
read_effect(c, ids) == c

\* the calls of github.get_commits and PolyAgent.run a read makes: none
read_calls(ids) == <<>>

\* a repo the board is given and no sync has seen
Stranger == [Repo(UnknownId, 0) EXCEPT !.name = "notes"]
BoardRepos == {Repo(id, 0) : id \in RepoIds} \cup {Stranger}

\* the repo lists a Board is built with: any order of any of the repos
BoardInputs ==
    {<<>>}
    \cup {<<a>> : a \in BoardRepos}
    \cup UNION {{<<a, b>> : b \in BoardRepos \ {a}} : a \in BoardRepos}
    \cup UNION {UNION {{<<a, b, d>> : d \in BoardRepos \ {a, b}}
                       : b \in BoardRepos \ {a}} : a \in BoardRepos}

\* agent.get_commits(id)
GetCommits(id) ==
    /\ cache' = read_effect(cache, {id})
    /\ trace' = <<[ev |-> "read", op |-> "get_commits", id |-> id, before |-> cache,
                   pc |-> pc, result |-> get_commits(cache, id)]>>
                 \o read_calls({id})
    /\ UNCHANGED <<as_of, tz, pc, repos, idx, disk, persisted, clock, asked, dashboard_data, last_refresh, token>>

\* agent.get_summary(id)
GetSummary(id) ==
    /\ cache' = read_effect(cache, {id})
    /\ trace' = <<[ev |-> "read", op |-> "get_summary", id |-> id, before |-> cache,
                   pc |-> pc, result |-> get_summary(cache, id)]>>
                 \o read_calls({id})
    /\ UNCHANGED <<as_of, tz, pc, repos, idx, disk, persisted, clock, asked, dashboard_data, last_refresh, token>>

\* Board(rs, agent, as_of).get_projects(), with the as_of the agent runs with
GetProjects(rs) ==
    /\ cache' = read_effect(cache, {rs[k].id : k \in DOMAIN rs})
    /\ trace' = <<[ev |-> "read", op |-> "get_projects", repos |-> rs, before |-> cache,
                   pc |-> pc, result |-> get_projects(cache, rs, as_of)]>>
                 \o read_calls({rs[k].id : k \in DOMAIN rs})
    /\ UNCHANGED <<as_of, tz, pc, repos, idx, disk, persisted, clock, asked, dashboard_data, last_refresh, token>>

\* a commit dated w, as get_commits normalises it
CommitAt(k, w) ==
    [sha |-> "d" \o ToString(k), message |-> "work",
     date |-> [wall |-> w, zone |-> "Z"], author |-> "dev"]

\* n commits dated w, w - 1, ...
Burst(n, w) == [k \in 1 .. n |-> CommitAt(k, w + 1 - k)]

\* feeds for the board: none, one commit now, commits on the edge of the
\* 3-day window, six older than 3 days, four new and six older, two older
\* than 30 days, two around the edge of the 30-day window, one commit made
\* two days after the latest as_of (the cache of a run with a later as_of)
BoardFeeds ==
    {Burst(0, 0), Burst(1, 0), Burst(2, 0 - 24 * RecentDays + 1),
     Burst(6, 0 - 100), Burst(4, 0) \o Burst(6, 0 - 100),
     Burst(2, 0 - 1000), Burst(2, 0 - 24 * MonthDays + 1),
     Burst(1, MaxTime + 48)}

BoardBatches == {<<Repo(a, MaxTime)>> : a \in RepoIds}
BoardAi == {[kind |-> "data", text |-> "adding tests"]}

NextBoard ==
    \/ \E t \in Tasks, rs \in BoardBatches : SyncRepos(t, rs)
    \/ \E t \in Tasks, commits \in BoardFeeds, ai \in BoardAi : FetchReturns(t, commits, ai)
    \/ \E t \in Tasks, msg \in FetchErrors : FetchFails(t, msg)
    \/ \E id \in AskedIds : GetCommits(id)
    \/ \E id \in AskedIds : GetSummary(id)
    \/ \E rs \in BoardInputs : GetProjects(rs)

SpecBoard == Init /\ [][NextBoard]_vars

-----------------------------------------------------------------------------
(* C15 *)

Reads == {i \in DOMAIN trace : trace[i].ev = "read"}

\* C15: get_commits, get_summary and get_projects issue no call of
\* github.get_commits and none of the Summarizer, leave the cache and the
\* running syncs as they were, and get_commits returns the cached list, or
\* the empty list for an identifier without an entry.
C15_ReadsAreReadOnly ==
    \A i \in Reads :
        /\ cache = trace[i].before
        /\ pc = trace[i].pc
        /\ TraceEvents("get_commits") = {}
        /\ TraceEvents("ai_run") = {}
        /\ trace[i].op = "get_commits"
           => trace[i].result =
                  (IF ToString(trace[i].id) \in DOMAIN cache
                   THEN cache[ToString(trace[i].id)].commits
                   ELSE <<>>)

\* the board was computed for a repo without an entry beside one with
\* commits, while a sync was waiting for its fetch
C15_Witness ==
    \E i \in Reads :
        /\ trace[i].op = "get_projects"
        /\ \E k \in DOMAIN trace[i].repos : ToString(trace[i].repos[k].id) \notin DOMAIN cache
        /\ \E k \in DOMAIN trace[i].repos : get_commits(cache, trace[i].repos[k].id) # <<>>
        /\ pc["main"] = "fetching"

-----------------------------------------------------------------------------
(* C19 *)

Boards == {i \in Reads : trace[i].op = "get_projects"}

\* C19: get_projects returns one row for each repo it was given, no more, and
\* the weight of every row is 5 times its 3-day count plus its 30-day count.
C19_OneRowEachWeighted ==
    \A i \in Boards :
        LET rs == trace[i].repos
            rows == trace[i].result
        IN  /\ Len(rows) = Len(rs)
            /\ \A k \in DOMAIN rs :
                   Cardinality({m \in DOMAIN rows : rows[m].project = rs[k].name}) = 1
            /\ \A m \in DOMAIN rows :
                   rows[m].weight = 5 * rows[m].commit_count_3d + rows[m].commit_count_30d

\* a board of three repos with a row of counts 4 and 10 and weight 30, and a
\* row of counts 0 and 0 and weight 0
C19_Witness ==
    \E i \in Boards :
        LET rows == trace[i].result
        IN  /\ Len(rows) = 3
            /\ \E m \in DOMAIN rows :
                   /\ rows[m].commit_count_3d = 4
                   /\ rows[m].commit_count_30d = 10
                   /\ rows[m].weight = 30
            /\ \E m \in DOMAIN rows :
                   /\ rows[m].commit_count_3d = 0
                   /\ rows[m].commit_count_30d = 0
                   /\ rows[m].weight = 0

-----------------------------------------------------------------------------
(* C20 *)

\* the position of the repo called name in the list rs
PositionOf(rs, name) == CHOOSE k \in DOMAIN rs : rs[k].name = name

\* C20: the rows come by weight, heaviest first, and rows of equal weight
\* come in the order their repos had in the list given to the board.
C20_HeaviestFirstStable ==
    \A i \in Boards :
        LET rs == trace[i].repos
            rows == trace[i].result
        IN  \A m, n \in DOMAIN rows :
                m < n
                => /\ rows[m].weight >= rows[n].weight
                   /\ rows[m].weight = rows[n].weight
                      => PositionOf(rs, rows[m].project) < PositionOf(rs, rows[n].project)

\* a board whose rows had to be reordered, two of them of the same weight
\* made of different counts, the one of higher id given first
C20_Witness ==
    \E i \in Boards :
        LET rs == trace[i].repos
            rows == trace[i].result
        IN  /\ Len(rows) = 3
            /\ \E m, n \in DOMAIN rows :
                   /\ m < n
                   /\ rows[m].weight = rows[n].weight
                   /\ rows[m].weight > 0
                   /\ rows[m].commit_count_3d # rows[n].commit_count_3d
                   /\ rows[m].project = RepoName(12)
                   /\ rows[n].project = RepoName(7)
            /\ \E m \in DOMAIN rows : rows[m].project # rs[m].name

-----------------------------------------------------------------------------
(* save_cache and load_cache *)

\* a value that is None or a str, as JSON: null or a string
json_of(x) == IF x = None THEN [t |-> "null"] ELSE [t |-> "string", s |-> x[1]]
of_json(j) == IF j.t = "null" THEN None ELSE Some(j.s)

\* json_dump writing None as the text "None"
json_dump_none_as_text(c) ==
    [k \in DOMAIN c |->
        [commits |-> c[k].commits,
         last_fetched |-> c[k].last_fetched,
         summary |-> [t |-> "string", s |-> Or(c[k].summary, "None")],
         summary_at |-> json_of(c[k].summary_at)]]

\* json.dump(self.cache, f): an object keyed by the repo_id strings
json_dump(c) ==
    [k \in DOMAIN c |->
        [commits |-> c[k].commits,
         last_fetched |-> c[k].last_fetched,
         summary |-> json_of(c[k].summary),
         summary_at |-> json_of(c[k].summary_at)]]

\* json_load that skips the entries without commits
json_load_nonempty(doc) ==
    [k \in {x \in DOMAIN doc : doc[x].commits # <<>>} |->
        [commits |-> doc[k].commits,
         last_fetched |-> doc[k].last_fetched,
         summary |-> of_json(doc[k].summary),
         summary_at |-> of_json(doc[k].summary_at)]]

\* json.load(f) of a document json.dump wrote
json_load(doc) ==
    [k \in DOMAIN doc |->
        [commits |-> doc[k].commits,
         last_fetched |-> doc[k].last_fetched,
         summary |-> of_json(doc[k].summary),
         summary_at |-> of_json(doc[k].summary_at)]]

\* the file save_cache leaves
save_cache(c) == [kind |-> "json", doc |-> json_dump(c)]

\* a file json.load cannot parse, such as one cut short while it was written
Garbage == [kind |-> "garbage"]

\* load_cache that starts from an empty cache when there is no file
load_cache_reset(c, d) ==
    IF d.kind = "missing" THEN [cache |-> <<>>, raised |-> FALSE]
    ELSE IF d.kind = "garbage" THEN [cache |-> c, raised |-> TRUE]
    ELSE [cache |-> json_load(d.doc), raised |-> FALSE]

\* load_cache: no file, nothing done; json.load raises before self.cache is
\* assigned; else the cache is what the file holds
load_cache(c, d) ==
    IF d.kind = "missing" THEN [cache |-> c, raised |-> FALSE]
    ELSE IF d.kind = "garbage" THEN [cache |-> c, raised |-> TRUE]
    ELSE [cache |-> json_load(d.doc), raised |-> FALSE]

\* get_commits and get_summary given the identifier as a str: str(s) is s
get_commits_str(c, s) == IF s \in DOMAIN c THEN c[s].commits ELSE <<>>
get_summary_str(c, s) ==
    IF s \in DOMAIN c THEN Or(c[s].summary, "No summary available")
    ELSE "Not synced yet"

Idle == \A t \in Tasks : pc[t] # "fetching"

\* CommitAgent(github, as_of): a new engine, its cache empty
NewAgent ==
    /\ Idle
    /\ cache' = <<>>
    /\ pc' = [t \in Tasks |-> "idle"]
    /\ trace' = <<[ev |-> "init"]>>
    /\ UNCHANGED <<as_of, tz, repos, idx, disk, persisted, clock, asked, dashboard_data, last_refresh, token>>

\* agent.save_cache()
SaveCache ==
    /\ Idle
    /\ disk' = save_cache(cache)
    /\ persisted' = cache
    /\ trace' = <<[ev |-> "save_cache", before |-> cache]>>
    /\ UNCHANGED <<cache, as_of, tz, pc, repos, idx, clock, asked, dashboard_data, last_refresh, token>>

\* agent.load_cache()
LoadCache ==
    /\ Idle
    /\ LET r == load_cache(cache, disk)
       IN  /\ cache' = r.cache
           /\ trace' = <<[ev |-> "load_cache", before |-> cache, file |-> disk.kind,
                          raised |-> r.raised]>>
    /\ UNCHANGED <<as_of, tz, pc, repos, idx, disk, persisted, clock, asked, dashboard_data, last_refresh, token>>

\* the file is damaged between two runs
FileDamaged ==
    /\ disk.kind = "json"
    /\ disk' = Garbage
    /\ trace' = <<[ev |-> "file"]>>
    /\ UNCHANGED <<cache, as_of, tz, pc, repos, idx, persisted, clock, asked, dashboard_data, last_refresh, token>>

StoreBatches == {<<Repo(a, u)>> : a \in RepoIds, u \in UpdatedTimes}

\* what the syncs before a save are answered: no commits; many commits and a
\* summary; one commit and a blank reply of the Summarizer
StoreReplies ==
    {[commits |-> Feed(0), ai |-> [kind |-> "data", text |-> "adding tests"]],
     [commits |-> Feed(MaxCommits), ai |-> [kind |-> "data", text |-> "adding tests"]],
     [commits |-> Feed(1), ai |-> [kind |-> "content", text |-> " \n"]]}

NextStore ==
    \/ \E t \in Tasks, rs \in StoreBatches : SyncRepos(t, rs)
    \/ \E t \in Tasks, r \in StoreReplies : FetchReturns(t, r.commits, r.ai)
    \/ \E t \in Tasks, msg \in FetchErrors : FetchFails(t, msg)
    \/ NewAgent
    \/ SaveCache
    \/ LoadCache
    \/ FileDamaged

SpecStore == Init /\ [][NextStore]_vars

-----------------------------------------------------------------------------
(* C16 *)

Loads == {i \in DOMAIN trace : trace[i].ev = "load_cache"}
AskedKeys == {ToString(id) : id \in AskedIds}

\* C16: when load_cache has read the file save_cache wrote, get_commits and
\* get_summary answer for every identifier, given as an int or as a str, what
\* they answered on the cache that was saved.
C16_RoundTrip ==
    \A i \in Loads :
        trace[i].file = "json"
        => /\ \A id \in AskedIds :
                  /\ get_commits(cache, id) = get_commits(persisted, id)
                  /\ get_summary(cache, id) = get_summary(persisted, id)
           /\ \A s \in AskedKeys :
                  /\ get_commits_str(cache, s) = get_commits_str(persisted, s)
                  /\ get_summary_str(cache, s) = get_summary_str(persisted, s)
           /\ DOMAIN cache = DOMAIN persisted

\* a new engine has loaded a file that holds an entry without a summary and
\* an entry with commits and a summary
C16_Witness ==
    \E i \in Loads :
        /\ trace[i].file = "json"
        /\ trace[i].before = <<>>
        /\ \E k \in DOMAIN persisted : persisted[k].summary = None
        /\ \E k \in DOMAIN persisted :
               /\ Len(persisted[k].commits) > SummaryWindow
               /\ persisted[k].summary \notin {None, Some("")}
        /\ cache = persisted

-----------------------------------------------------------------------------
(* C17 *)

\* C17: load_cache with no file raises nothing and leaves the cache as it
\* was, which for a new engine is empty.
C17_MissingFileNoOp ==
    \A i \in Loads :
        trace[i].file = "missing" => ~ trace[i].raised /\ cache = trace[i].before

\* load_cache found no file, on an engine that holds entries
C17_Witness ==
    \E i \in Loads :
        trace[i].file = "missing" /\ trace[i].before # <<>> /\ cache # <<>>

-----------------------------------------------------------------------------
(* C18 *)

\* C18: when load_cache cannot parse the file it raises and the cache is
\* empty afterwards, whatever it held before.
C18_CorruptFallsBackToEmpty ==
    \A i \in Loads :
        trace[i].file = "garbage" => trace[i].raised /\ cache = <<>>

-----------------------------------------------------------------------------
(* C21 *)

\* the rows of the boards in the trace, each with the cached commits of its repo
BoardRows ==
    UNION {{[row |-> trace[i].result[m],
             commits |-> get_commits(cache,
                 trace[i].repos[PositionOf(trace[i].repos, trace[i].result[m].project)].id)]
              : m \in DOMAIN trace[i].result} : i \in Boards}

\* the commits of a row that were not made after as_of, on the clock reading
\* (as_of is local time and no zone of the model is behind UTC, so a commit
\* later than as_of on the clock reading is later as an instant, too)
NotLater(commits) == {k \in DOMAIN commits : commits[k].date.wall <= as_of.wall}

\* C21: a cached commit made after as_of is counted in neither window: no
\* count exceeds the number of cached commits made at or before as_of.
C21_NothingAfterAsOf ==
    \A r \in BoardRows :
        /\ r.row.commit_count_3d <= Cardinality(NotLater(r.commits))
        /\ r.row.commit_count_30d <= Cardinality(NotLater(r.commits))

-----------------------------------------------------------------------------
(* C22 *)

\* the instant as_of - days days, as a UTC clock reading: as_of is local time
CutoffInstant(days) == as_of.wall - tz - 24 * days

\* the commits of a list made at or after an instant (commit dates are UTC)
AtOrAfter(commits, w) == {k \in DOMAIN commits : commits[k].date.wall >= w}

\* the commits of a list made exactly at an instant
MadeAt(commits, w) == {k \in DOMAIN commits : commits[k].date.wall = w}

\* the count a row holds for a window
CountOf(r, days) ==
    IF days = RecentDays THEN r.commit_count_3d ELSE r.commit_count_30d

\* C22: a commit made exactly at as_of - 3 days is counted in the 3-day count
\* and one made one hour earlier is not (the same at 30 days): where a repo has
\* a commit on either side of that edge, the count is the number of its
\* commits made at the edge or later.
C22_EdgeIncluded ==
    \A r \in BoardRows : \A days \in {RecentDays, MonthDays} :
        (MadeAt(r.commits, CutoffInstant(days)) # {}
             \/ MadeAt(r.commits, CutoffInstant(days) - 1) # {})
        => CountOf(r.row, days) = Cardinality(AtOrAfter(r.commits, CutoffInstant(days)))

-----------------------------------------------------------------------------
(* C23 *)

\* C23: the cutoff is taken as the instant it is, not relabelled: each count
\* is the number of cached commits made at or after the instant as_of - N days,
\* whatever the offset of the local zone.
C23_CountsByInstant ==
    \A r \in BoardRows : \A days \in {RecentDays, MonthDays} :
        CountOf(r.row, days) = Cardinality(AtOrAfter(r.commits, CutoffInstant(days)))

-----------------------------------------------------------------------------
(* C26 *)

\* C26: in every entry, summary is None exactly when summary_at is None.
C26_SummaryAndStampTogether ==
    \A k \in DOMAIN cache : (cache[k].summary = None) <=> (cache[k].summary_at = None)

\* an entry without summary and stamp beside an entry with both
C26_Witness ==
    /\ \E k \in DOMAIN cache : cache[k].summary = None /\ cache[k].summary_at = None
    /\ \E k \in DOMAIN cache : cache[k].summary # None /\ cache[k].summary_at # None

-----------------------------------------------------------------------------
(* C27 *)

\* what _generate_summary makes of the Summarizer's answer
NewSummary(ai) ==
    IF ai.kind = "raise" THEN "Summary generation failed: " \o ai.text ELSE Returned(ai)

\* C27: the cache is keyed by the string form of the repo ids, an int and its
\* string form reach the same entry, and a sync that fetched for a repo leaves
\* an entry made of that fetch alone: the commits are the fetched list (empty
\* after a failed fetch), the summary is the one of this sync (none when
\* nothing was fetched), the stamps are as_of.
C27_ReplacedWholesale ==
    /\ DOMAIN cache \subseteq {ToString(id) : id \in RepoIds}
    /\ \A id \in RepoIds :
           /\ get_commits(cache, id) = get_commits_str(cache, ToString(id))
           /\ get_summary(cache, id) = get_summary_str(cache, ToString(id))
    /\ \A i \in DOMAIN trace :
           LET e == trace[i] IN
           /\ e.ev = "fetched"
              => /\ EntryOf(e.repo).commits = e.commits
                 /\ EntryOf(e.repo).last_fetched = isoformat(as_of)
                 /\ e.commits = <<>>
                    => EntryOf(e.repo).summary = None /\ EntryOf(e.repo).summary_at = None
                 /\ e.commits # <<>>
                    => /\ EntryOf(e.repo).summary = Some(NewSummary(e.ai[1]))
                       /\ EntryOf(e.repo).summary_at = Some(isoformat(as_of))
           /\ e.ev = "fetch_failed"
              => /\ EntryOf(e.repo).commits = <<>>
                 /\ EntryOf(e.repo).last_fetched = isoformat(as_of)
                 /\ EntryOf(e.repo).summary = Some("Error: " \o Prefix(e.msg, ErrorCap))

\* a repo whose entry held commits was fetched again and nothing came: the
\* entry holds no commits and no summary now
C27_Witness ==
    \E i \in TraceEvents("fetched") :
        /\ trace[i].had_commits
        /\ trace[i].commits = <<>>
        /\ EntryOf(trace[i].repo).commits = <<>>
        /\ EntryOf(trace[i].repo).summary = None

-----------------------------------------------------------------------------
(* C28 *)

\* the cache of the next run if the process ends now: a new engine's
\* load_cache of the file as it is
Restored == load_cache(<<>>, disk).cache

\* a sync has just written an entry, in a run that worked on what it had
\* restored, and the file can be read
UnflushedWrite(e) ==
    /\ e.ev \in Returns
    /\ disk.kind # "garbage"
    /\ e.had_entry \/ ToString(e.repo.id) \notin DOMAIN persisted

\* C28: when the process ends after a sync wrote an entry and before
\* save_cache, the next run restores exactly what had been saved, and its
\* sync finds the repo of the lost write stale again, for the same or a later
\* updated_at.
C28_LostSyncRefetched ==
    \A i \in DOMAIN trace :
        UnflushedWrite(trace[i])
        => /\ Restored = persisted
           /\ \A u \in UpdatedTimes :
                  u >= trace[i].repo.updated_at.wall
                  => needs_fetch(Restored, Repo(trace[i].repo.id, u), tz)

\* a sync has replaced, in memory only, an entry that is in the file, beside
\* a saved entry without commits
C28_Witness ==
    \E i \in DOMAIN trace :
        /\ UnflushedWrite(trace[i])
        /\ trace[i].ev = "fetched"
        /\ trace[i].had_entry
        /\ disk.kind = "json"
        /\ ToString(trace[i].repo.id) \in DOMAIN Restored
        /\ Restored[ToString(trace[i].repo.id)] # EntryOf(trace[i].repo)
        /\ \E k \in DOMAIN Restored : Restored[k].commits = <<>>

-----------------------------------------------------------------------------
(* The server (src/server.py): refreshes that overlap *)

\* the background task and a request of /api/refresh, on one event loop and
\* one CommitAgent
ServerTasks == {"background", "manual"}

\* time passes
Tick ==
    /\ clock < MaxTime
    /\ clock' = clock + 1
    /\ trace' = <<[ev |-> "tick"]>>
    /\ UNCHANGED <<cache, as_of, tz, pc, repos, idx, disk, persisted, asked, dashboard_data, last_refresh, token>>

\* refresh_dashboard up to its await of get_repos: as_of is set to the clock
RefreshStarts(t) ==
    /\ pc[t] = "idle"
    /\ as_of' = Naive(clock)
    /\ pc' = [pc EXCEPT ![t] = "listing"]
    /\ trace' = <<[ev |-> "as_of", task |-> t]>>
    /\ UNCHANGED <<cache, tz, repos, idx, disk, persisted, clock, asked, dashboard_data, last_refresh, token>>

\* get_repos returns: sync_repos runs up to its first await of get_commits
ReposListed(t, rs) ==
    /\ pc[t] = "listing"
    /\ Continue(t, cache, rs, 1, <<[ev |-> "sync_repos", repos |-> rs]>>)
    /\ UNCHANGED <<as_of, tz, disk, persisted, clock, dashboard_data, last_refresh, token>>

\* commit_agent.save_cache() of a refresh whose sync has returned
RefreshSaves(t) ==
    /\ pc[t] = "idle"
    /\ disk' = save_cache(cache)
    /\ persisted' = cache
    /\ trace' = <<[ev |-> "save_cache", before |-> cache, pc |-> pc]>>
    /\ UNCHANGED <<cache, as_of, tz, pc, repos, idx, clock, asked, dashboard_data, last_refresh, token>>

\* Board(repos, commit_agent, as_of=datetime.now()).get_projects() of a
\* refresh whose sync has returned
RefreshBoard(t, rs) ==
    /\ pc[t] = "idle"
    /\ cache' = read_effect(cache, {rs[k].id : k \in DOMAIN rs})
    /\ trace' = <<[ev |-> "read", op |-> "get_projects", repos |-> rs, before |-> cache,
                   pc |-> pc, result |-> get_projects(cache, rs, Naive(clock))]>>
                 \o read_calls({rs[k].id : k \in DOMAIN rs})
    /\ UNCHANGED <<as_of, tz, pc, repos, idx, disk, persisted, clock, asked, dashboard_data, last_refresh, token>>

\* both refreshes list the same repo
ServerBatches == {<<Repo(7, u)>> : u \in UpdatedTimes}
ServerFeeds == {Feed(0), Feed(1)}

InitServer ==
    /\ cache = <<>>
    /\ clock = 0
    /\ as_of = Naive(0)
    /\ tz \in LocalOffsets
    /\ pc = [t \in ServerTasks |-> "idle"]
    /\ repos = [t \in ServerTasks |-> <<>>]
    /\ idx = [t \in ServerTasks |-> 0]
    /\ asked = [t \in ServerTasks |-> 0]
    /\ dashboard_data = None
    /\ last_refresh = None
    /\ token = TRUE
    /\ trace = <<>>
    /\ disk = NoFile
    /\ persisted = <<>>

NextServer ==
    \/ Tick
    \/ \E t \in ServerTasks : RefreshStarts(t)
    \/ \E t \in ServerTasks, rs \in ServerBatches : ReposListed(t, rs)
    \/ \E t \in ServerTasks, commits \in ServerFeeds, ai \in BoardAi :
           FetchReturns(t, commits, ai)
    \/ \E t \in ServerTasks, msg \in FetchErrors : FetchFails(t, msg)
    \/ \E t \in ServerTasks : RefreshSaves(t)
    \/ \E t \in ServerTasks, rs \in ServerBatches : RefreshBoard(t, rs)

SpecServer == InitServer /\ [][NextServer]_vars

-----------------------------------------------------------------------------
(* C24 *)

\* the other refresh
Other(t) == CHOOSE o \in ServerTasks : o # t

\* refresh o waits for the commits of the repo of event e
InFlightOn(o, e) ==
    /\ pc[o] = "fetching"
    /\ repos[o][idx[o]].id = e.repo.id

\* C24: when syncs overlap, every entry is the work of one of them: the sync
\* whose fetch has just returned leaves an entry whose commits, last_fetched,
\* summary and summary_at are all its own, and in every entry the summary
\* stamp, when set, is the stamp of the fetch.
C24_LastWriteWinsWhole ==
    /\ \A i \in TraceEvents("fetched") :
           LET e == trace[i] IN
           /\ EntryOf(e.repo).commits = e.commits
           /\ EntryOf(e.repo).last_fetched = isoformat(as_of)
           /\ e.commits = <<>>
              => EntryOf(e.repo).summary = None /\ EntryOf(e.repo).summary_at = None
           /\ e.commits # <<>>
              => /\ EntryOf(e.repo).summary = Some(NewSummary(e.ai[1]))
                 /\ EntryOf(e.repo).summary_at = Some(isoformat(as_of))
    /\ \A k \in DOMAIN cache :
           cache[k].summary_at \in {None, Some(cache[k].last_fetched)}

\* a refresh has replaced the entry the other refresh wrote at an earlier
\* as_of, while that other refresh is fetching the same repo once more
C24_Witness ==
    \E i \in TraceEvents("fetched") :
        /\ trace[i].had_entry
        /\ trace[i].commits # <<>>
        /\ InFlightOn(Other(trace[i].task), trace[i])
        /\ clock > 0

-----------------------------------------------------------------------------
(* C25 *)

\* C25: whatever a reader or save_cache finds while a sync is in flight, an
\* entry with commits has a summary: in the cache, in what save_cache wrote,
\* and in what a new engine would load.
C25_CommitsHaveSummary ==
    /\ \A k \in DOMAIN cache : cache[k].commits # <<>> => cache[k].summary # None
    /\ \A k \in DOMAIN persisted :
           persisted[k].commits # <<>> => persisted[k].summary # None
    /\ \A k \in DOMAIN Restored : Restored[k].commits # <<>> => Restored[k].summary # None

\* the board was computed over an entry with commits while the other refresh
\* was waiting for its fetch, and the file holds an entry with commits
C25_Witness ==
    /\ \E i \in Boards :
           /\ \E t \in ServerTasks : trace[i].pc[t] = "fetching"
           /\ \E k \in DOMAIN trace[i].before : trace[i].before[k].commits # <<>>
    /\ \E k \in DOMAIN persisted : persisted[k].commits # <<>>

-----------------------------------------------------------------------------
(* C29 *)

\* C29: the last_fetched a sync records is not later than the clock was when
\* that sync called get_commits.
C29_StampNotAfterQuery ==
    \A i \in TraceEvents("fetched") :
        EntryOf(trace[i].repo).last_fetched.wall <= trace[i].asked

-----------------------------------------------------------------------------
(* GitHubClient.get_most_recent_branch and the branch get_commits asks for *)

MaxBranches == 3

\* author dates as GitHub writes them: strings of one width, here two digits
BranchDates == {<<0, 9>>, <<1, 0>>, <<1, 1>>, <<2, 0>>}

BranchNames == <<"main", "dev", "fix", "docs", "next">>

\* the answers to /repos/{owner}/{repo}/branches and to the lookups of the
\* head commits: a list of branches, each with the date its lookup returns or
\* None when its lookup fails; or a failure of the listing itself
BranchLists ==
    UNION {[1 .. n -> [date : {Some(d) : d \in BranchDates} \cup {None}]]
               : n \in 0 .. MaxBranches}

Branches(l) == [k \in DOMAIN l |-> [name |-> BranchNames[k], date |-> l[k].date]]

Listings ==
    {[failed |-> TRUE, branches |-> <<>>]}
    \cup {[failed |-> FALSE, branches |-> Branches(l)] : l \in BranchLists}

\* a > b on two strings of the same length, character by character
RECURSIVE StrGreater(_, _)
StrGreater(a, b) ==
    IF a = <<>> \/ b = <<>> THEN Len(a) > Len(b)
    ELSE IF a[1] # b[1] THEN a[1] > b[1]
    ELSE StrGreater(Tail(a), Tail(b))

\* newer with >= in place of >
newer_or_equal(commit_date, most_recent_date) ==
    most_recent_date = None \/ commit_date = most_recent_date[1]
        \/ StrGreater(commit_date, most_recent_date[1])

\* most_recent_date is None or commit_date > most_recent_date
newer(commit_date, most_recent_date) ==
    most_recent_date = None \/ StrGreater(commit_date, most_recent_date[1])

\* the for loop of get_most_recent_branch from position i on; an exception of
\* a lookup ends it
RECURSIVE scan_branches(_, _, _, _)
scan_branches(bs, i, most_recent, most_recent_date) ==
    IF i > Len(bs) THEN [raised |-> FALSE, name |-> most_recent]
    ELSE IF bs[i].date = None THEN [raised |-> TRUE, name |-> None]
    ELSE IF newer(bs[i].date[1], most_recent_date)
         THEN scan_branches(bs, i + 1, Some(bs[i].name), bs[i].date)
         ELSE scan_branches(bs, i + 1, most_recent, most_recent_date)

\* get_most_recent_branch(owner, repo): every exception is caught
get_most_recent_branch(listing) ==
    IF listing.failed THEN None
    ELSE IF listing.branches = <<>> THEN None
    ELSE LET r == scan_branches(listing.branches, 1, None, None)
         IN  IF r.raised THEN None ELSE r.name

\* branch_params that asks for the first listed branch when none was found
branch_params_first(listing, branch) ==
    [per_page |-> PerPage,
     sha |-> IF branch # None THEN branch
             ELSE IF listing.branches # <<>> THEN Some(listing.branches[1].name)
             ELSE None]

\* get_commits, the params of its request: sha only when a branch was found
branch_params(listing, branch) ==
    [per_page |-> PerPage, sha |-> IF branch # None THEN branch ELSE None]

\* the answers to /repos/{owner}/{repo}/commits
CommitsReplies == {"ok", "raise"}

\* github.get_commits(..., use_most_recent_branch=True)
AskCommits(listing, reply) ==
    /\ trace' = <<[ev |-> "branch", listing |-> listing, reply |-> reply,
                   branch |-> get_most_recent_branch(listing),
                   params |-> branch_params(listing, get_most_recent_branch(listing)),
                   raised |-> reply = "raise"]>>
    /\ UNCHANGED <<cache, as_of, tz, pc, repos, idx, disk, persisted, clock, asked, dashboard_data, last_refresh, token>>

NextBranch == \E listing \in Listings, reply \in CommitsReplies : AskCommits(listing, reply)

\* a client that has not been asked yet; the engine plays no part
InitBranch == Init /\ as_of = Naive(0) /\ tz = 0

SpecBranch == InitBranch /\ [][NextBranch]_vars

-----------------------------------------------------------------------------
(* C30 *)

\* the date a string of digits stands for
DateValue(d) == 10 * d[1] + d[2]

\* the listing and every lookup succeeded, for at least one branch
Determined(listing) ==
    /\ ~ listing.failed
    /\ listing.branches # <<>>
    /\ \A k \in DOMAIN listing.branches : listing.branches[k].date # None

\* the first branch of the greatest date
FirstNewest(bs) ==
    CHOOSE k \in DOMAIN bs :
        /\ \A m \in DOMAIN bs : DateValue(bs[m].date[1]) <= DateValue(bs[k].date[1])
        /\ \A m \in 1 .. (k - 1) : DateValue(bs[m].date[1]) < DateValue(bs[k].date[1])

\* C30: get_most_recent_branch returns the branch of the greatest author date,
\* the first listed of them; it returns None when there is no branch or a
\* lookup or the listing fails, and then get_commits asks for the commits
\* without a branch and fails only if that request fails.
C30_MostRecentBranch ==
    \A i \in TraceEvents("branch") :
        LET e == trace[i] IN
        /\ Determined(e.listing)
           => /\ e.branch = Some(e.listing.branches[FirstNewest(e.listing.branches)].name)
              /\ e.params.sha = e.branch
        /\ ~ Determined(e.listing)
           => /\ e.branch = None
              /\ e.params.sha = None
        /\ e.raised <=> e.reply = "raise"

\* three branches, the second and third of the same, greatest date
C30_Witness ==
    \E i \in TraceEvents("branch") :
        LET bs == trace[i].listing.branches IN
        /\ Determined(trace[i].listing)
        /\ Len(bs) = 3
        /\ DateValue(bs[1].date[1]) < DateValue(bs[2].date[1])
        /\ bs[2].date = bs[3].date
        /\ trace[i].branch = Some("dev")

-----------------------------------------------------------------------------
(* server.py: the dashboard's globals, GET /api/dashboard, the background task *)

\* two requests of GET /api/dashboard, and the task lifespan creates
DashRequests == {"get1", "get2"}
DashTasks == {"background"} \cup DashRequests

\* what save_cache may do: write the file, or raise while it writes
SaveOutcomes == {"ok", "cut"}

\* the dict refresh_dashboard builds from the board
dashboard(c, rs, now) ==
    [projects |-> get_projects(c, rs, now),
     timestamp |-> isoformat(now),
     repo_count |-> Len(rs)]

\* finish_refresh that assigns the globals before it saves the cache
finish_refresh_early(c, rs, io, d, dd, lr, now) ==
    [raised |-> io # "ok",
     disk |-> IF io = "ok" THEN save_cache(c) ELSE Garbage,
     dashboard_data |-> Some(dashboard(c, rs, now)),
     last_refresh |-> Some(now)]

\* refresh_dashboard from save_cache to its return, with the file d and the
\* globals dd and lr as they are: an exception of save_cache leaves the
\* globals alone
finish_refresh(c, rs, io, d, dd, lr, now) ==
    IF io = "ok"
    THEN [raised |-> FALSE, disk |-> save_cache(c),
          dashboard_data |-> Some(dashboard(c, rs, now)), last_refresh |-> Some(now)]
    ELSE [raised |-> TRUE, disk |-> Garbage,
          dashboard_data |-> dd, last_refresh |-> lr]

\* caller_after of a background task that an exception ends
caller_after_ends(t, raised) ==
    IF t = "background" THEN IF raised THEN "ended" ELSE "sleeping"
    ELSE "done"

\* where the caller of refresh_dashboard goes on: background_refresh_task
\* catches the exception and loops to its sleep, the request of get_dashboard
\* is done, with the data or with the exception as its response
caller_after(t, raised) ==
    IF t = "background" THEN "sleeping" ELSE "done"

\* refresh_dashboard up to its await of get_repos
Start(t) ==
    /\ as_of' = Naive(clock)
    /\ pc' = [pc EXCEPT ![t] = "listing"]
    /\ trace' = <<[ev |-> "refresh_started", task |-> t, had_data |-> dashboard_data # None]>>
    /\ UNCHANGED <<cache, tz, repos, idx, disk, persisted, clock, asked,
                   dashboard_data, last_refresh, token>>

\* refresh_dashboard raises at the given step, the cache being c
Raise(t, c, done, step) ==
    /\ cache' = c
    /\ pc' = [pc EXCEPT ![t] = caller_after(t, TRUE)]
    /\ repos' = [repos EXCEPT ![t] = <<>>]
    /\ idx' = [idx EXCEPT ![t] = 0]
    /\ trace' = <<[ev |-> "refresh_raised", task |-> t, step |-> step]>>
    /\ UNCHANGED <<disk, persisted, asked, dashboard_data, last_refresh>>

\* sync_repos has returned with the cache c: save, board, globals, return
Finish(t, c, rs, done, io) ==
    LET f == finish_refresh(c, rs, io, disk, dashboard_data, last_refresh, Naive(clock))
    IN  /\ cache' = IF f.raised THEN c ELSE read_effect(c, {rs[k].id : k \in DOMAIN rs})
        /\ disk' = f.disk
        /\ persisted' = IF f.raised THEN persisted ELSE c
        /\ dashboard_data' = f.dashboard_data
        /\ last_refresh' = f.last_refresh
        /\ pc' = [pc EXCEPT ![t] = caller_after(t, f.raised)]
        /\ repos' = [repos EXCEPT ![t] = <<>>]
        /\ idx' = [idx EXCEPT ![t] = 0]
        /\ asked' = asked
        /\ trace' = <<[ev |-> IF f.raised THEN "refresh_raised" ELSE "published",
                        task |-> t, step |-> "save_cache", repos |-> rs]>>

\* the loop of sync_repos runs on from position i; when it ends without a
\* further await, refresh_dashboard runs to its end in the same step
Resume(t, c, rs, i, done, io) ==
    IF next_stale(c, rs, i, tz) <= Len(rs)
    THEN /\ Continue(t, c, rs, i, done)
         /\ UNCHANGED <<disk, persisted, dashboard_data, last_refresh>>
    ELSE Finish(t, scan_cache(c, rs, i, tz), rs, done \o scan_events(c, rs, i, tz, as_of), io)

\* asyncio.sleep(60) returns in background_refresh_task
Wake ==
    /\ pc["background"] = "sleeping"
    /\ IF token
       THEN Start("background")
       ELSE /\ trace' = <<[ev |-> "wake"]>>
            /\ UNCHANGED <<cache, as_of, tz, pc, repos, idx, disk, persisted, clock, asked,
                           dashboard_data, last_refresh, token>>

\* GET /api/dashboard arrives: up to the first await, or to the response
GetDashboard(t) ==
    /\ pc[t] = "new"
    /\ IF dashboard_data # None
       THEN /\ pc' = [pc EXCEPT ![t] = "done"]
            /\ trace' = <<[ev |-> "get_dashboard", task |-> t, response |-> dashboard_data]>>
            /\ UNCHANGED <<cache, as_of, tz, repos, idx, disk, persisted, clock, asked,
                           dashboard_data, last_refresh, token>>
       ELSE IF ~ token
       THEN /\ pc' = [pc EXCEPT ![t] = "done"]
            /\ trace' = <<[ev |-> "refresh_raised", task |-> t, step |-> "token"]>>
            /\ UNCHANGED <<cache, as_of, tz, repos, idx, disk, persisted, clock, asked,
                           dashboard_data, last_refresh, token>>
       ELSE Start(t)

\* get_repos returns the list rs
DashReposListed(t, rs, io) ==
    /\ pc[t] = "listing"
    /\ Resume(t, cache, rs, 1, <<[ev |-> "sync_repos", repos |-> rs]>>, io)
    /\ UNCHANGED <<as_of, tz, clock, token>>

\* get_repos raises
DashReposFail(t) ==
    /\ pc[t] = "listing"
    /\ Raise(t, cache, <<>>, "get_repos")
    /\ UNCHANGED <<as_of, tz, clock, token>>

\* get_commits returns inside the sync of refresh t
DashFetchReturns(t, commits, ai, io) ==
    /\ pc[t] = "fetching"
    /\ LET repo == repos[t][idx[t]]
       IN  Resume(t, on_fetched(cache, repo, commits, ai, as_of), repos[t], idx[t] + 1,
                  <<[ev |-> "fetched", repo |-> repo, commits |-> commits, task |-> t]>>
                  \o on_fetched_calls(repo, commits), io)
    /\ UNCHANGED <<as_of, tz, clock, token>>

\* get_commits raises inside the sync of refresh t
DashFetchFails(t, msg, io) ==
    /\ pc[t] = "fetching"
    /\ LET repo == repos[t][idx[t]]
           r == on_fetch_error(cache, repo, msg, as_of)
           done == <<[ev |-> "fetch_failed", repo |-> repo, msg |-> msg, task |-> t]>>
       IN  IF r.raised
           THEN Raise(t, r.cache, done, "sync_repos")
           ELSE Resume(t, r.cache, repos[t], idx[t] + 1, done, io)
    /\ UNCHANGED <<as_of, tz, clock, token>>

\* the server shuts down: refresh_task.cancel() ends the task at its await
Shutdown ==
    /\ pc["background"] \in {"sleeping", "listing", "fetching"}
    /\ pc' = [pc EXCEPT !["background"] = "cancelled"]
    /\ repos' = [repos EXCEPT !["background"] = <<>>]
    /\ idx' = [idx EXCEPT !["background"] = 0]
    /\ trace' = <<[ev |-> "shutdown"]>>
    /\ UNCHANGED <<cache, as_of, tz, disk, persisted, clock, asked,
                   dashboard_data, last_refresh, token>>

DashBatches == {<<Repo(7, u)>> : u \in UpdatedTimes}
DashFeeds == {Feed(1)}

\* the server after lifespan's startup, with no cache file and the tasks T
InitOf(T) ==
    /\ cache = <<>>
    /\ clock = 0
    /\ as_of = Naive(0)
    /\ tz = 0
    /\ pc = [t \in T |-> IF t = "background" THEN "sleeping" ELSE "new"]
    /\ repos = [t \in T |-> <<>>]
    /\ idx = [t \in T |-> 0]
    /\ asked = [t \in T |-> 0]
    /\ trace = <<>>
    /\ disk = NoFile
    /\ persisted = <<>>
    /\ dashboard_data = None
    /\ last_refresh = None
    /\ token \in BOOLEAN

\* a step of one of the tasks T, of the clock or of the shutdown
StepOf(T) ==
    \/ Tick
    \/ Wake
    \/ \E t \in T \ {"background"} : GetDashboard(t)
    \/ \E t \in T, rs \in DashBatches, io \in SaveOutcomes : DashReposListed(t, rs, io)
    \/ \E t \in T : DashReposFail(t)
    \/ \E t \in T, commits \in DashFeeds, ai \in BoardAi, io \in SaveOutcomes :
           DashFetchReturns(t, commits, ai, io)
    \/ \E t \in T, msg \in FetchErrors, io \in SaveOutcomes : DashFetchFails(t, msg, io)
    \/ Shutdown

\* the background task and two requests of GET /api/dashboard
InitDash == InitOf(DashTasks)
NextDash == StepOf(DashTasks)
SpecDash == InitDash /\ [][NextDash]_vars

\* the background task and one request
RefreshTasks == {"background", "get1"}
InitRefresh == InitOf(RefreshTasks)
NextRefresh == StepOf(RefreshTasks)
SpecRefresh == InitRefresh /\ [][NextRefresh]_vars

\* the sleep of the background task ends
SpecRefreshLive == SpecRefresh /\ WF_vars(Wake)

-----------------------------------------------------------------------------
(* C31 *)

\* the requests of GET /api/dashboard whose refresh is under way
Refreshing == {t \in DashRequests \cap DOMAIN pc : pc[t] \in {"listing", "fetching"}}

\* a request of GET /api/dashboard has just called refresh_dashboard
StartedByGet(e) == e.ev = "refresh_started" /\ e.task \in DashRequests

\* a request starts a refresh only with the data unset, and a request that
\* finds the data set answers with it
OnlyWhenUnset ==
    /\ \A i \in DOMAIN trace : StartedByGet(trace[i]) => ~ trace[i].had_data
    /\ \A i \in TraceEvents("get_dashboard") :
           trace[i].response # None /\ trace[i].response = dashboard_data

\* C31: GET /api/dashboard starts a refresh only while dashboard_data is
\* unset, and of the requests that arrive before the first refresh is over
\* at most one starts a refresh.
C31_FetchOnce ==
    /\ OnlyWhenUnset
    /\ Cardinality(Refreshing) <= 1

-----------------------------------------------------------------------------
(* C32 *)

\* the refresh of the background task has just raised
BackgroundRaised ==
    \E i \in TraceEvents("refresh_raised") : trace[i].task = "background"

\* C32: a refresh that raises inside background_refresh_task does not end the
\* task: it is back at its sleep, and another refresh is started when the
\* sleep is over, unless the server is shut down first.
C32_BackgroundKeepsRunning ==
    /\ [](BackgroundRaised => pc["background"] = "sleeping")
    /\ (BackgroundRaised ~> pc["background"] \in {"listing", "cancelled"})

\* the background task starts a refresh after a refresh of its own has failed
\* in save_cache: no request has arrived, so the damaged file is its work
C32_Witness ==
    /\ \E i \in TraceEvents("refresh_started") : trace[i].task = "background"
    /\ disk = Garbage
    /\ pc["get1"] = "new"

-----------------------------------------------------------------------------
(* C33 *)

\* the step has ended a refresh with the globals assigned
Published ==
    \E i \in DOMAIN trace' :
        /\ trace'[i].ev = "published"
        /\ pc'[trace'[i].task] \notin {"listing", "fetching"}
        /\ \A k \in DOMAIN trace'[i].repos :
               ToString(trace'[i].repos[k].id) \in DOMAIN cache'
        /\ disk' = save_cache(cache')
        /\ dashboard_data' = Some(dashboard(cache', trace'[i].repos, Naive(clock)))
        /\ last_refresh' = Some(Naive(clock))

\* C33: dashboard_data and last_refresh change only in the step that ends a
\* refresh whose listing, sync and save have all been done; a refresh that
\* raises leaves both as they were; dashboard_data, once set, stays set.
C33_PublishAfterAll ==
    [][/\ (dashboard_data' # dashboard_data \/ last_refresh' # last_refresh) => Published
       /\ (\E i \in DOMAIN trace' : trace'[i].ev = "refresh_raised")
          => UNCHANGED <<dashboard_data, last_refresh>>
       /\ dashboard_data # None => dashboard_data' # None]_vars

\* a refresh has raised in save_cache at a later clock than the one whose
\* data is still shown
C33_Witness ==
    /\ \E i \in TraceEvents("refresh_raised") : trace[i].step = "save_cache"
    /\ dashboard_data # None
    /\ last_refresh = Some(Naive(0))
    /\ clock > 0

====
